---- MODULE Spec2Model ----
(***************************************************************************)
(* Model of muxysql's MySQL wire-protocol core:                            *)
(*   src/src/mysql/packet.rs  - header codec, packet framer, type          *)
(*                              classification, OK / ERROR decoders        *)
(*   src/src/connection.rs    - Connection and its State                   *)
(* Bytes are integers 0..255, byte slices are sequences (1-based here,     *)
(* 0-based in the source: body[0] of the source is body[1] of the model).  *)
(* A Rust panic (index out of bounds, failed assert_eq!, slice start past  *)
(* the end) is the outcome kind "Panic".                                   *)
(***************************************************************************)
EXTENDS Integers, Sequences, FiniteSets, TLC

VARIABLES
    stream,         \* bytes the peer has put on the wire for this exchange
    buf,            \* the prefix of stream handed to Packet::from_bytes
    phase,          \* the Phase handed to Packet::from_bytes
    pkt,            \* outcome of Packet::from_bytes
    client_flag,    \* handshake_response.client_flag the decoder was given
    dec,            \* outcome of OkData::from_packet / ErrorData::from_packet
    hdr,            \* PacketHeader given to PacketHeader::to_bytes
    raw,            \* the 4 bytes PacketHeader::to_bytes produced
    decoded,        \* PacketHeader::from_bytes of raw
    state,          \* Connection.state
    partial_data,   \* Connection.partial_data
    last_command,   \* Connection.last_command
    op              \* the operation performed last

vars == <<stream, buf, phase, pkt, client_flag, dec, hdr, raw, decoded,
          state, partial_data, last_command, op>>

frameVars == <<stream, buf, phase, pkt, client_flag, dec>>
codecVars == <<hdr, raw, decoded>>
connVars  == <<state, partial_data, last_command>>

(***************************************************************************)
(* Bounds of the model.                                                    *)
(***************************************************************************)
\* longest declared body size for which a complete frame is put on the wire
MaxBody == 13
\* longest byte slice handed to set_partial_data
MaxPartial == 3

(***************************************************************************)
(* Helpers on byte sequences.                                              *)
(***************************************************************************)
Take(s, n) == SubSeq(s, 1, n)

\* &s[from..] of the source, from 0-based; defined for from <= len(s)
SliceFrom(s, from) == SubSeq(s, from + 1, Len(s))

\* little-endian value of the first n bytes of s
RECURSIVE LittleEndian(_, _)
LittleEndian(s, n) ==
    IF n = 0 THEN 0 ELSE s[1] + 256 * LittleEndian(Tail(s), n - 1)

\* An integer wider than 16 bits (u128 in the source) is kept as its base-256
\* numeral, least significant digit first, without leading zero digits: the
\* value of the little-endian bytes s.
RECURSIVE Numeral(_)
Numeral(s) ==
    IF Len(s) = 0 THEN <<>>
    ELSE IF s[Len(s)] = 0 THEN Numeral(Take(s, Len(s) - 1))
    ELSE s

\* byte i (0-based) of usize::to_le_bytes(v)
LeByte(v, i) == (v \div (256 ^ i)) % 256

(***************************************************************************)
(* PacketHeader (packet.rs 22-46).                                         *)
(***************************************************************************)
\* temp[..3] = bytes[0..3]; size = usize::from_le_bytes(temp); seq = bytes[3]
PacketHeader_from_bytes(bytes) ==
    [size |-> LittleEndian(Take(bytes, 3), 3), seq |-> bytes[4]]

\* a variant of to_bytes without the line ret[3] = self.seq
PacketHeader_to_bytes_no_seq(h) ==
    [i \in 1..4 |-> LeByte(h.size, i - 1)]

\* ret = to_le_bytes(size)[0..4]; ret[3] = seq
PacketHeader_to_bytes(h) ==
    [i \in 1..4 |-> IF i = 4 THEN h.seq ELSE LeByte(h.size, i - 1)]

(***************************************************************************)
(* Phase: the enum packet.rs imports from crate::connection.  Only         *)
(* Phase::Command is named by the code; every other phase takes the same   *)
(* path, and "Handshake" stands for them.                                  *)
(***************************************************************************)
Phase == {"Handshake", "Command"}

(***************************************************************************)
(* get_packet_type (packet.rs 81-100).  body[0] on an empty body is an     *)
(* index out of bounds: a panic.                                           *)
(***************************************************************************)
\* a variant that tests the phase before the marker bytes
get_packet_type_phase_first(body, ph) ==
    IF Len(body) = 0 THEN "Panic"
    ELSE IF ph = "Command" THEN "Command"
    ELSE IF Len(body) >= 7 /\ body[1] = 0 THEN "Ok"
    ELSE IF Len(body) <= 9 /\ body[1] = 254 THEN "Eof"
    ELSE IF body[1] = 255 THEN "Error"
    ELSE "Other"

get_packet_type(body, ph) ==
    \* body.len() >= 7 && body[0] == 0x00 : && short-circuits on a short body
    IF Len(body) >= 7 /\ body[1] = 0 THEN "Ok"
    \* body.len() <= 9 && body[0] == 0xfe : body[0] is evaluated
    ELSE IF Len(body) <= 9 /\ Len(body) = 0 THEN "Panic"
    ELSE IF Len(body) <= 9 /\ body[1] = 254 THEN "Eof"
    \* body[0] == 0xff
    ELSE IF Len(body) = 0 THEN "Panic"
    ELSE IF body[1] = 255 THEN "Error"
    ELSE IF ph = "Command" THEN "Command"
    ELSE "Other"

(***************************************************************************)
(* Packet::from_bytes (packet.rs 49-69).                                   *)
(***************************************************************************)
NoHeader == [size |-> 0, seq |-> 0]
NoPacket == [kind |-> "None", header |-> NoHeader, body |-> <<>>, p_type |-> "None"]
\* Err(Error {}) : std::fmt::Error, the one error value of both early returns
ErrPacket == [kind |-> "Err", header |-> NoHeader, body |-> <<>>, p_type |-> "None"]
PanicPacket == [kind |-> "Panic", header |-> NoHeader, body |-> <<>>, p_type |-> "None"]

\* a variant whose body check forgets the 4 header bytes; the slice
\* bytes[4..4 + size] then reaches past the end of the buffer and panics
Packet_from_bytes_check_without_header(bytes, ph) ==
    IF Len(bytes) < 4 THEN ErrPacket
    ELSE LET header == PacketHeader_from_bytes(Take(bytes, 4)) IN
         IF Len(bytes) < header.size THEN ErrPacket
         ELSE IF Len(bytes) < 4 + header.size THEN PanicPacket
         ELSE LET body == SubSeq(bytes, 5, 4 + header.size)
                  p_type == get_packet_type(body, ph)
              IN  IF p_type = "Panic" THEN PanicPacket
                  ELSE [kind |-> "Packet", header |-> header,
                        body |-> body, p_type |-> p_type]

\* a variant that takes everything after the header as the body
Packet_from_bytes_greedy_body(bytes, ph) ==
    IF Len(bytes) < 4 THEN ErrPacket
    ELSE LET header == PacketHeader_from_bytes(Take(bytes, 4)) IN
         IF Len(bytes) < 4 + header.size THEN ErrPacket
         ELSE LET body == SubSeq(bytes, 5, Len(bytes))
                  p_type == get_packet_type(body, ph)
              IN  IF p_type = "Panic" THEN PanicPacket
                  ELSE [kind |-> "Packet", header |-> header,
                        body |-> body, p_type |-> p_type]

Packet_from_bytes(bytes, ph) ==
    IF Len(bytes) < 4 THEN ErrPacket
    ELSE LET header == PacketHeader_from_bytes(Take(bytes, 4)) IN
         IF Len(bytes) < 4 + header.size THEN ErrPacket
         ELSE LET body == SubSeq(bytes, 5, 4 + header.size)
                  p_type == get_packet_type(body, ph)
              IN  IF p_type = "Panic" THEN PanicPacket
                  ELSE [kind |-> "Packet", header |-> header,
                        body |-> body, p_type |-> p_type]

(***************************************************************************)
(* CapabilityFlags (crate::mysql::accumulator): bit values of the MySQL    *)
(* protocol.  client_flag & Flag as u32 != 0 tests one bit.                *)
(***************************************************************************)
ClientProtocol41 == 512
ClientTransactions == 8192
ClientSessionTrack == 8388608

HasFlag(flags, bit) == (flags \div bit) % 2 = 1

(***************************************************************************)
(* Primitive field decoders (crate::mysql::types).  Each returns the       *)
(* value and offset_increment; ok = FALSE is the failure on a buffer too   *)
(* short for the field.  Text is the sequence of its character codes.      *)
(***************************************************************************)
Failed == [ok |-> FALSE, result |-> 0, offset_increment |-> 0]
Decoded(v, n) == [ok |-> TRUE, result |-> v, offset_increment |-> n]

IsText(bytes) == \A i \in 1..Len(bytes) : bytes[i] < 128

IntFixedLen_from_bytes(bytes, n) ==
    IF Len(bytes) < n THEN Failed ELSE Decoded(LittleEndian(bytes, n), n)

IntLenEnc_from_bytes(bytes) ==
    IF Len(bytes) = 0 THEN Failed
    ELSE LET b == bytes[1]
             wide(n) == IF Len(bytes) < 1 + n THEN Failed
                        ELSE Decoded(Numeral(SubSeq(bytes, 2, 1 + n)), 1 + n)
         IN  IF b < 251 THEN Decoded(Numeral(<<b>>), 1)
             ELSE IF b = 251 THEN Decoded(Numeral(<<>>), 1)   \* NULL: the value has no meaning
             ELSE IF b = 252 THEN wide(2)
             ELSE IF b = 253 THEN wide(3)
             ELSE IF b = 254 THEN wide(8)
             ELSE Failed

StringFixedLen_from_bytes(bytes, n) ==
    IF Len(bytes) < n \/ ~IsText(Take(bytes, n)) THEN Failed
    ELSE Decoded(Take(bytes, n), n)

StringEOFEnc_from_bytes(bytes) ==
    IF ~IsText(bytes) THEN Failed ELSE Decoded(bytes, Len(bytes))

(***************************************************************************)
(* Option<T>: None is <<>>, Some(x) is <<x>>.                              *)
(***************************************************************************)
None == <<>>
Some(x) == <<x>>

(***************************************************************************)
(* ErrorData::from_packet and get_sql_state (packet.rs 115-165).           *)
(* The decoders return ErrorData / OkData, not a Result, and read          *)
(* .result and .offset_increment of a primitive directly: a primitive      *)
(* that fails, like a slice start past the end of the body or a failed     *)
(* assert_eq!, ends the call in a panic.                                   *)
(***************************************************************************)
PanicData == [kind |-> "Panic"]
NoData == [kind |-> "None"]

get_sql_state(packet, flags, offset) ==
    IF ~HasFlag(flags, ClientProtocol41) THEN [kind |-> "Value", value |-> None]
    ELSE IF offset > Len(packet.body) THEN PanicData          \* packet.body[state_offset..]
    ELSE LET marker == StringFixedLen_from_bytes(SliceFrom(packet.body, offset), 1) IN
         IF ~marker.ok THEN PanicData
         ELSE LET state_offset == offset + marker.offset_increment
                  code == StringFixedLen_from_bytes(SliceFrom(packet.body, state_offset), 5)
              IN  IF ~code.ok THEN PanicData
                  ELSE IF state_offset + code.offset_increment - offset # 6 THEN PanicData
                  ELSE [kind |-> "Value",
                        value |-> Some([state_marker |-> marker.result,
                                        state |-> code.result])]

\* the rest of from_packet once error_code has been read
ErrorData_rest(packet, flags, code, offset) ==
    LET body == packet.body
        sql_state == get_sql_state(packet, flags, offset)
        after == offset + 6                                   \* offset += 6
    IN  IF sql_state.kind = "Panic" THEN PanicData
        ELSE IF after > Len(body) THEN PanicData              \* &body[offset..]
        ELSE LET msg == StringEOFEnc_from_bytes(SliceFrom(body, after)) IN
             IF ~msg.ok THEN PanicData
             ELSE IF after + msg.offset_increment # Len(body) THEN PanicData
             ELSE [kind |-> "ErrorData",
                   error_code |-> code,
                   sql_state |-> sql_state.value,
                   error_message |-> msg.result]

ErrorData_from_packet(packet, flags) ==
    IF packet.p_type # "Error" THEN PanicData                 \* assert_eq!
    ELSE LET result == IntFixedLen_from_bytes(packet.body, 2) IN   \* body, not body[offset..]
         IF ~result.ok THEN PanicData
         ELSE ErrorData_rest(packet, flags, result.result % 65536,
                             1 + result.offset_increment)

(***************************************************************************)
(* OkData::from_packet (packet.rs 195-266).  offset is the final value of  *)
(* the local cursor.                                                       *)
(***************************************************************************)
\* IntFixedLen::from_bytes(&body[offset..].to_vec(), Some(2))
U16At(body, offset) ==
    IF offset > Len(body) THEN Failed
    ELSE IntFixedLen_from_bytes(SliceFrom(body, offset), 2)

\* IntLenEnc::from_bytes(&body[offset..].to_vec(), None)
LenEncAt(body, offset) ==
    IF offset > Len(body) THEN Failed
    ELSE IntLenEnc_from_bytes(SliceFrom(body, offset))

\* a variant that tests ClientTransactions before ClientProtocol41
OkData_flags_part_transactions_first(body, flags, affected_rows, last_insert_id, offset) ==
    LET ok(status, warn, off) ==
            [kind |-> "OkData",
             affected_rows |-> affected_rows,
             last_insert_id |-> last_insert_id,
             status_flags |-> status,
             warnings |-> warn,
             info |-> None,
             session_state_info |-> None,
             offset |-> off]
    IN  IF HasFlag(flags, ClientTransactions) THEN
            LET s == U16At(body, offset) IN
            IF ~s.ok THEN PanicData
            ELSE ok(Some(s.result % 65536), None, offset + s.offset_increment)
        ELSE IF HasFlag(flags, ClientProtocol41) THEN
            LET s == U16At(body, offset) IN
            IF ~s.ok THEN PanicData
            ELSE LET w == U16At(body, offset + s.offset_increment) IN
                 IF ~w.ok THEN PanicData
                 ELSE ok(Some(s.result % 65536), Some(w.result % 65536),
                         offset + s.offset_increment + w.offset_increment)
        ELSE ok(None, None, offset)

\* the capability-gated part: status_flags, warnings, info
OkData_flags_part(body, flags, affected_rows, last_insert_id, offset) ==
    LET ok(status, warn, off) ==
            [kind |-> "OkData",
             affected_rows |-> affected_rows,
             last_insert_id |-> last_insert_id,
             status_flags |-> status,
             warnings |-> warn,
             info |-> None,                   \* the ClientSessionTrack branch is empty
             session_state_info |-> None,
             offset |-> off]
    IN  IF HasFlag(flags, ClientProtocol41) THEN
            LET s == U16At(body, offset) IN
            IF ~s.ok THEN PanicData
            ELSE LET w == U16At(body, offset + s.offset_increment) IN
                 IF ~w.ok THEN PanicData
                 ELSE ok(Some(s.result % 65536), Some(w.result % 65536),
                         offset + s.offset_increment + w.offset_increment)
        ELSE IF HasFlag(flags, ClientTransactions) THEN
            LET s == U16At(body, offset) IN
            IF ~s.ok THEN PanicData
            ELSE ok(Some(s.result % 65536), None, offset + s.offset_increment)
        ELSE ok(None, None, offset)

OkData_from_packet(packet, flags) ==
    IF packet.p_type # "Ok" THEN PanicData                    \* assert_eq!
    ELSE LET body == packet.body
             rows == LenEncAt(body, 1)
         IN  IF ~rows.ok THEN PanicData
             ELSE LET offset == 1 + rows.offset_increment
                      id == LenEncAt(body, offset)
                  IN  IF ~id.ok THEN PanicData
                      ELSE OkData_flags_part(body, flags, rows.result, id.result,
                                             offset + id.offset_increment)

(***************************************************************************)
(* Inputs.  A stream is a 4-byte wire header followed by payload bytes.    *)
(* The first three payload bytes range over the protocol's marker bytes    *)
(* and length-encoding prefixes; byte i >= 4 of the payload is the ASCII   *)
(* character 48 + i, so every position carries a different value.          *)
(***************************************************************************)
Markers == {0, 3, 254, 255}          \* 0x00 OK, 0x03 COM_QUERY, 0xFE EOF, 0xFF ERR
SecondBytes == {132, 251, 252, 253, 254}
ThirdBytes == {4, 252}
SeqBytes == {0, 255}

Payload(n, m, b1, b2) ==
    [i \in 1..n |-> IF i = 1 THEN m ELSE IF i = 2 THEN b1
                    ELSE IF i = 3 THEN b2 ELSE 48 + i]

WireHeader(size, seq) == <<LeByte(size, 0), LeByte(size, 1), LeByte(size, 2), seq>>

\* a frame of the declared size, alone or followed by the first byte of the next
StreamsOf(size) ==
    { WireHeader(size, seq) \o Payload(size + extra, m, b1, b2) :
        extra \in {0, 1}, seq \in SeqBytes,
        m \in Markers, b1 \in SecondBytes, b2 \in ThirdBytes }

\* headers that declare more than the peer ever sends
LongDeclared ==
    { WireHeader(size, 0) \o Payload(n, m, 132, 4) :
        size \in {256, 65536, 16777215}, n \in {0, 2}, m \in Markers }

Streams == UNION { StreamsOf(size) : size \in 0..MaxBody } \cup LongDeclared

ClientFlags ==
    { l + p + t + s : l \in {0, 1},          \* bit 0: a flag no decoder reads
                      p \in {0, ClientProtocol41}, t \in {0, ClientTransactions},
                      s \in {0, ClientSessionTrack} }

HeaderSizes ==
    { a + 256 * b + 65536 * c + 16777216 * d :
        a \in {0, 1, 255}, b \in {0, 1, 255}, c \in {0, 1, 255}, d \in {0, 1, 127} }

Headers == [size : HeaderSizes, seq : {0, 1, 255}]

RECURSIVE ByteSeqs(_)
ByteSeqs(n) ==
    IF n = 0 THEN { <<>> }
    ELSE ByteSeqs(n - 1) \cup
         { Append(s, b) : s \in { t \in ByteSeqs(n - 1) : Len(t) = n - 1 },
                          b \in {0, 255} }

(***************************************************************************)
(* Initial state: Connection::new() (connection.rs 10-16); nothing framed, *)
(* decoded or encoded yet.                                                 *)
(***************************************************************************)
Init ==
    /\ stream = <<>>
    /\ buf = <<>>
    /\ phase = "Handshake"
    /\ pkt = NoPacket
    /\ client_flag = 0
    /\ dec = NoData
    /\ hdr = NoHeader
    /\ raw = None
    /\ decoded = None
    /\ state = "Initiated"
    /\ partial_data = None
    /\ last_command = None
    /\ op = "new"

(***************************************************************************)
(* Framing and decoding.                                                   *)
(***************************************************************************)
\* the I/O layer hands the first n bytes of a new stream to Packet::from_bytes
Frame(s, n, ph) ==
    /\ stream' = s
    /\ buf' = Take(s, n)
    /\ phase' = ph
    /\ pkt' = Packet_from_bytes(Take(s, n), ph)
    /\ op' = "frame"
    /\ UNCHANGED <<client_flag, dec, codecVars, connVars>>

\* after an Err the caller keeps the bytes and frames again once more arrived
Reframe(n) ==
    /\ buf' = Take(stream, n)
    /\ pkt' = Packet_from_bytes(Take(stream, n), phase)
    /\ op' = "frame"
    /\ UNCHANGED <<stream, phase, client_flag, dec, codecVars, connVars>>

DecodeOkWith(flags) ==
    /\ client_flag' = flags
    /\ dec' = OkData_from_packet(pkt, flags)
    /\ op' = "decode_ok"
    /\ UNCHANGED <<stream, buf, phase, pkt, codecVars, connVars>>

DecodeErrorWith(flags) ==
    /\ client_flag' = flags
    /\ dec' = ErrorData_from_packet(pkt, flags)
    /\ op' = "decode_error"
    /\ UNCHANGED <<stream, buf, phase, pkt, codecVars, connVars>>

\* the packet and what was decoded from it are dropped
Release ==
    /\ pkt.kind = "Packet"
    /\ stream' = <<>>
    /\ buf' = <<>>
    /\ phase' = "Handshake"
    /\ pkt' = NoPacket
    /\ client_flag' = 0
    /\ dec' = NoData
    /\ op' = "release"
    /\ UNCHANGED <<codecVars, connVars>>

Receive ==
    /\ pkt.kind = "None"
    /\ \E s \in Streams : \E n \in 0..Len(s) : \E ph \in Phase : Frame(s, n, ph)

Retry ==
    /\ pkt.kind = "Err"
    /\ \E n \in (Len(buf) + 1)..Len(stream) : Reframe(n)

DecodeOk ==
    /\ pkt.kind = "Packet"
    /\ dec.kind = "None"
    /\ \E flags \in ClientFlags : DecodeOkWith(flags)

DecodeError ==
    /\ pkt.kind = "Packet"
    /\ dec.kind = "None"
    /\ \E flags \in ClientFlags : DecodeErrorWith(flags)

Next ==
    \/ Receive
    \/ Retry
    \/ DecodeOk
    \/ DecodeError
    \/ Release

Spec == Init /\ [][Next]_vars

(***************************************************************************)
(* Header codec.                                                           *)
(***************************************************************************)
to_bytes(h) ==
    /\ hdr' = h
    /\ raw' = Some(PacketHeader_to_bytes(h))
    /\ decoded' = None
    /\ op' = "to_bytes"
    /\ UNCHANGED <<frameVars, connVars>>

from_bytes ==
    /\ raw # None
    /\ decoded = None
    /\ decoded' = Some(PacketHeader_from_bytes(raw[1]))
    /\ op' = "from_bytes"
    /\ UNCHANGED <<hdr, raw, frameVars, connVars>>

NextCodec ==
    \/ \E h \in Headers : to_bytes(h)
    \/ from_bytes

SpecCodec == Init /\ [][NextCodec]_vars

(***************************************************************************)
(* Connection (connection.rs 9-35).                                        *)
(***************************************************************************)
get_state ==
    /\ op' = "get_state"
    /\ UNCHANGED <<connVars, frameVars, codecVars>>

\* a variant that assigns the wrong variant of State
mark_auth_done_initiated ==
    /\ state' = "Initiated"
    /\ op' = "mark_auth_done"
    /\ UNCHANGED <<partial_data, last_command, frameVars, codecVars>>

mark_auth_done ==
    /\ state' = "AuthDone"
    /\ op' = "mark_auth_done"
    /\ UNCHANGED <<partial_data, last_command, frameVars, codecVars>>

unset_partial_data ==
    /\ partial_data' = None
    /\ op' = "unset_partial_data"
    /\ UNCHANGED <<state, last_command, frameVars, codecVars>>

set_partial_data(bytes) ==
    /\ partial_data' = Some(bytes)
    /\ op' = "set_partial_data"
    /\ UNCHANGED <<state, last_command, frameVars, codecVars>>

\* the command-dispatch collaborator writes the pub fields when it sends a
\* command ...
send_command ==
    /\ state = "AuthDone"
    /\ state' = "PendingResponse"
    /\ last_command' = Some("Command")
    /\ op' = "send_command"
    /\ UNCHANGED <<partial_data, frameVars, codecVars>>

\* ... and when the terminal reply (Ok, Error or Eof) has arrived
reply_received ==
    /\ state = "PendingResponse"
    /\ state' = "AuthDone"
    /\ op' = "reply_received"
    /\ UNCHANGED <<partial_data, last_command, frameVars, codecVars>>

NextConn ==
    \/ get_state
    \/ mark_auth_done
    \/ unset_partial_data
    \/ \E bytes \in ByteSeqs(MaxPartial) : set_partial_data(bytes)
    \/ send_command
    \/ reply_received

SpecConn == Init /\ [][NextConn]_vars

(***************************************************************************)
(* Properties.                                                             *)
(* What the wire format says of a buffer, independent of the code:         *)
(***************************************************************************)
\* the size the first three bytes of a buffer of at least 4 bytes declare
DeclaredSize(b) == b[1] + 256 * b[2] + 65536 * b[3]

ShortHeader(b) == Len(b) < 4
ShortBody(b) == Len(b) >= 4 /\ Len(b) < 4 + DeclaredSize(b)

\* width of the length-encoded integer that starts at 0-based offset off
LenEncWidth(body, off) ==
    IF off >= Len(body) THEN 1
    ELSE LET b == body[off + 1] IN
         IF b = 252 THEN 3 ELSE IF b = 253 THEN 4 ELSE IF b = 254 THEN 9 ELSE 1

\* 0-based offset of the byte after last_insert_id in an OK body
AfterLastInsertId(body) ==
    LET o1 == 1 + LenEncWidth(body, 1) IN o1 + LenEncWidth(body, o1)

\* bytes an OK body must have for the fields the flags call for
OkBodyNeeds(body, flags) ==
    AfterLastInsertId(body)
      + (IF HasFlag(flags, ClientProtocol41) THEN 4
         ELSE IF HasFlag(flags, ClientTransactions) THEN 2 ELSE 0)

\* bytes an ERROR body must have for the fields the flags call for
ErrorBodyNeeds(flags) == IF HasFlag(flags, ClientProtocol41) THEN 9 ELSE 3

U16(body, off) == body[off + 1] + 256 * body[off + 2]

(* C1: a buffer whose header declares size 0 makes frame fail with a typed  *)
(* error; it neither panics nor yields a packet with an empty body.         *)
C1_EmptyBodyRejected ==
    (op = "frame" /\ Len(buf) >= 4 /\ DeclaredSize(buf) = 0) => pkt.kind = "Err"

(* C2: the error code of a decoded ERROR packet is the little-endian        *)
(* 16-bit integer at body[1..3] (0-based); the 0xFF marker is not part of   *)
(* it.                                                                      *)
C2_ErrorCodeSkipsMarker ==
    dec.kind = "ErrorData" => dec.error_code = U16(pkt.body, 1)

(* C3: decoding an ERROR packet, the SQL state takes 6 bytes exactly when   *)
(* ClientProtocol41 is set: marker body[3], state body[4..9], message       *)
(* body[9..]; with the flag clear sql_state is None and the message is      *)
(* body[3..].                                                               *)
C3_SqlStateGatedByProtocol41 ==
    (op = "decode_error" /\ pkt.p_type = "Error"
        /\ Len(pkt.body) >= ErrorBodyNeeds(client_flag)) =>
    /\ dec.kind = "ErrorData"
    /\ IF HasFlag(client_flag, ClientProtocol41)
       THEN /\ dec.sql_state = Some([state_marker |-> SubSeq(pkt.body, 4, 4),
                                     state |-> SubSeq(pkt.body, 5, 9)])
            /\ dec.error_message = SliceFrom(pkt.body, 9)
       ELSE /\ dec.sql_state = None
            /\ dec.error_message = SliceFrom(pkt.body, 3)

(* C4: the type of a framed packet is the first rule that matches, in the   *)
(* order Ok (len >= 7, 0x00), Eof (len <= 9, 0xFE), Error (0xFF), Command   *)
(* (phase), Other; Ok, Eof and Error do not depend on the phase, at most    *)
(* one of the three marker rules matches, and a 0x00 body shorter than 7 or *)
(* a 0xFE body longer than 9 is classified by the phase alone.              *)
C4_TypeIsFirstMatchingRule ==
    pkt.kind = "Packet" =>
    LET b == pkt.body
        r1 == Len(b) >= 7 /\ b[1] = 0
        r2 == Len(b) <= 9 /\ b[1] = 254
        r3 == b[1] = 255
        byPhase == IF phase = "Command" THEN "Command" ELSE "Other"
    IN  /\ Len(b) >= 1
        /\ r1 => pkt.p_type = "Ok"
        /\ (~r1 /\ r2) => pkt.p_type = "Eof"
        /\ (~r1 /\ ~r2 /\ r3) => pkt.p_type = "Error"
        /\ (~r1 /\ ~r2 /\ ~r3) => pkt.p_type = byPhase
        /\ ~(r1 /\ r2) /\ ~(r1 /\ r3) /\ ~(r2 /\ r3)
        /\ pkt.p_type \in {"Ok", "Eof", "Error"} =>
              \A ph \in Phase : get_packet_type(b, ph) = pkt.p_type
        /\ ((b[1] = 0 /\ Len(b) < 7) \/ (b[1] = 254 /\ Len(b) > 9)) =>
              pkt.p_type = byPhase

C4_Witness ==
    /\ pkt.kind = "Packet"
    /\ pkt.body[1] = 254
    /\ Len(pkt.body) > 9
    /\ phase = "Command"
    /\ pkt.p_type = "Command"

C6_TruncatedBodyNoPanic ==
    /\ (op = "decode_error" /\ pkt.p_type = "Error"
          /\ Len(pkt.body) < ErrorBodyNeeds(client_flag)) => dec.kind # "Panic"
    /\ (op = "decode_ok" /\ pkt.p_type = "Ok"
          /\ Len(pkt.body) < OkBodyNeeds(pkt.body, client_flag)) => dec.kind # "Panic"

(* C7: in a decoded OK packet status_flags and warnings depend on the       *)
(* capability flags alone: ClientProtocol41 gives both, read as two         *)
(* 2-byte little-endian integers right after last_insert_id; otherwise      *)
(* ClientTransactions gives status_flags alone; otherwise neither, and the  *)
(* cursor stays after last_insert_id.  info and session_state_info are      *)
(* None whatever the flags.                                                 *)
C7_OkFieldsGatedByFlags ==
    dec.kind = "OkData" =>
    LET after == AfterLastInsertId(pkt.body) IN
    /\ dec.info = None
    /\ dec.session_state_info = None
    /\ IF HasFlag(client_flag, ClientProtocol41)
       THEN /\ dec.status_flags = Some(U16(pkt.body, after))
            /\ dec.warnings = Some(U16(pkt.body, after + 2))
            /\ dec.offset = after + 4
       ELSE IF HasFlag(client_flag, ClientTransactions)
       THEN /\ dec.status_flags = Some(U16(pkt.body, after))
            /\ dec.warnings = None
            /\ dec.offset = after + 2
       ELSE /\ dec.status_flags = None
            /\ dec.warnings = None
            /\ dec.offset = after

C7_Witness ==
    /\ dec.kind = "OkData"
    /\ HasFlag(client_flag, ClientProtocol41)
    /\ HasFlag(client_flag, ClientTransactions)
    /\ HasFlag(client_flag, ClientSessionTrack)
    /\ pkt.body[2] = 252
    /\ dec.warnings # None

(* C8: decoding an encoded header whose size is below 2^24 gives back the   *)
(* size and the seq; the seq comes back for every size.                     *)
C8_HeaderRoundTrip ==
    decoded # None =>
    /\ decoded[1].seq = hdr.seq
    /\ hdr.size < 16777216 => decoded[1] = hdr

C8_Witness ==
    /\ decoded # None
    /\ hdr.size = 16777215
    /\ hdr.seq = 255
    /\ decoded[1] = hdr

(* C9: a Connection starts Initiated with no partial data and no last       *)
(* command; mark_auth_done leaves it in AuthDone; no step takes it back to  *)
(* Initiated once it has left.                                              *)
C9_PhaseNeverReturnsToInitiated ==
    /\ (state = "Initiated" /\ partial_data = None /\ last_command = None)
    /\ [](op = "mark_auth_done" => state = "AuthDone")
    /\ [][state # "Initiated" => state' # "Initiated"]_vars

C9_Witness ==
    /\ op = "mark_auth_done"
    /\ state = "AuthDone"
    /\ last_command # None
    /\ partial_data # None

(* C10: a framed packet's header.size is the length of its body, the body   *)
(* is buffer[4 .. 4 + size), and the bytes after it change nothing of the   *)
(* packet.                                                                  *)
C10_BodyIsExactlyDeclaredBytes ==
    pkt.kind = "Packet" =>
    /\ pkt.header.size = Len(pkt.body)
    /\ pkt.header.size = DeclaredSize(buf)
    /\ pkt.header.seq = buf[4]
    /\ pkt.body = SubSeq(buf, 5, 4 + pkt.header.size)
    /\ pkt = Packet_from_bytes(Take(buf, 4 + pkt.header.size), phase)

C10_Witness ==
    /\ pkt.kind = "Packet"
    /\ Len(buf) > 4 + pkt.header.size
    /\ pkt.header.size >= 1

====
